---- MODULE Spec2Model ----
(***************************************************************************)
(* claw-readme (src/index.js): a single synchronous script that reads a    *)
(* project's package.json, detects its GitHub repository, probes the       *)
(* project's own --help output, scans its entry points with regular        *)
(* expressions, merges the findings and prints or writes the result.       *)
(*                                                                         *)
(* Text is modelled as a sequence of one-character strings, so that the    *)
(* regular expressions of the script are matched character by character.   *)
(* The backquote, which a TLA+ string cannot hold, is written ^ throughout. *)
(***************************************************************************)
EXTENDS Integers, Sequences, FiniteSets, TLC

\* ------------------------------------------------------------ bounds
\* number of times the tool is run against the same directory
MaxRuns == 2
\* number of snippets concatenated into a scanned source file
MaxSnippets == 2
\* number of lines of a probed program's help output
MaxHelpLines == 3

\* ------------------------------------------------------------ characters
LowerSeq == <<"a","b","c","d","e","f","g","h","i","j","k","l","m",
              "n","o","p","q","r","s","t","u","v","w","x","y","z">>
UpperSeq == <<"A","B","C","D","E","F","G","H","I","J","K","L","M",
              "N","O","P","Q","R","S","T","U","V","W","X","Y","Z">>
DigitSeq == <<"0","1","2","3","4","5","6","7","8","9">>

Range(s) == {s[i] : i \in DOMAIN s}

Lower == Range(LowerSeq)
Upper == Range(UpperSeq)
Digit == Range(DigitSeq)
Letter == Lower \cup Upper
\* \w of a JavaScript regular expression without the u flag
WordChar == Letter \cup Digit \cup {"_"}
\* \s restricted to the white space of the modelled texts
SpaceChar == {" ", "\t", "\n"}
\* the three quote characters of the class ['"^]
QuoteChar == {"'", "\"", "^"}
\* [\w-]
WordDashChar == WordChar \cup {"-"}
\* [a-zA-Z0-9-]
AlnumDashChar == Letter \cup Digit \cup {"-"}
\* [a-zA-Z0-9_]
PropChar == Letter \cup Digit \cup {"_"}
\* the other characters of the modelled texts
Punct == {":", "(", ")", "[", "]", "{", "}", "=", ".", ",", "/", "<", ">", "@", "+"}
\* every character of the modelled texts
TextChar == WordDashChar \cup SpaceChar \cup QuoteChar \cup Punct
\* the dot of a regular expression: any character but a line break
DotChar == TextChar \ {"\n"}

IndexIn(seq, c) == CHOOSE k \in DOMAIN seq : seq[k] = c

\* String.prototype.toLowerCase, one character
LowerChar(c) == IF c \in Upper THEN LowerSeq[IndexIn(UpperSeq, c)] ELSE c

\* String.prototype.toLowerCase
ToLower(s) == [i \in DOMAIN s |-> LowerChar(s[i])]

\* String.prototype.startsWith
StartsWith(s, p) == Len(s) >= Len(p) /\ SubSeq(s, 1, Len(p)) = p

\* the literal p occurs in s at index i
At(s, i, p) == i >= 1 /\ i + Len(p) - 1 <= Len(s) /\ SubSeq(s, i, i + Len(p) - 1) = p

\* the literal p occurs in s at index i, ignoring case (the i flag)
AtNoCase(s, i, p) ==
  i >= 1 /\ i + Len(p) - 1 <= Len(s) /\ ToLower(SubSeq(s, i, i + Len(p) - 1)) = ToLower(p)

\* a greedy run class*: the first index >= i whose character is not in class
RECURSIVE SkipClass(_, _, _)
SkipClass(s, i, class) ==
  IF i >= 1 /\ i <= Len(s) /\ s[i] \in class THEN SkipClass(s, i + 1, class) ELSE i

\* the character at index i is in class
CharIn(s, i, class) == i >= 1 /\ i <= Len(s) /\ s[i] \in class

\* String.prototype.trim
RECURSIVE TrimRight(_)
TrimRight(s) ==
  IF Len(s) > 0 /\ s[Len(s)] \in SpaceChar THEN TrimRight(SubSeq(s, 1, Len(s) - 1)) ELSE s

Trim(s) == LET a == SkipClass(s, 1, SpaceChar) IN TrimRight(SubSeq(s, a, Len(s)))

\* String.prototype.split on a one-character separator
RECURSIVE SplitFrom(_, _, _)
SplitFrom(s, sep, from) ==
  LET hits == {i \in from..Len(s) : s[i] = sep}
  IN IF hits = {} THEN <<SubSeq(s, from, Len(s))>>
     ELSE LET i == CHOOSE j \in hits : \A k \in hits : j <= k
          IN <<SubSeq(s, from, i - 1)>> \o SplitFrom(s, sep, i + 1)

Split(s, sep) == SplitFrom(s, sep, 1)

\* Array.prototype.includes on an array without holes
Includes(arr, x) == \E i \in DOMAIN arr : arr[i] = x

\* concatenation of a sequence of texts
RECURSIVE Concat(_)
Concat(ss) == IF ss = <<>> THEN <<>> ELSE Head(ss) \o Concat(Tail(ss))

\* ------------------------------------------------------------ collation
\* String.prototype.localeCompare (src/index.js:253, 264) under the root
\* collation of ICU, for the characters a name can contain ([A-Za-z0-9_-]):
\* primary weights order "_" < "-" < digits < letters with a letter's case
\* ignored; between strings equal at the primary level the first case
\* difference decides, lower case first.
PrimaryWeight(c) ==
  IF c = "_" THEN 1
  ELSE IF c = "-" THEN 2
  ELSE IF c \in Digit THEN 2 + IndexIn(DigitSeq, c)
  ELSE 12 + IndexIn(LowerSeq, LowerChar(c))

TertiaryWeight(c) == IF c \in Upper THEN 1 ELSE 0

\* lexicographic comparison of two sequences of integers: -1, 0 or 1
RECURSIVE CompareWeights(_, _)
CompareWeights(a, b) ==
  IF a = <<>> /\ b = <<>> THEN 0
  ELSE IF a = <<>> THEN -1
  ELSE IF b = <<>> THEN 1
  ELSE IF Head(a) < Head(b) THEN -1
  ELSE IF Head(a) > Head(b) THEN 1
  ELSE CompareWeights(Tail(a), Tail(b))

localeCompare(a, b) ==
  LET p == CompareWeights([i \in DOMAIN a |-> PrimaryWeight(a[i])],
                          [i \in DOMAIN b |-> PrimaryWeight(b[i])])
  IN IF p # 0 THEN p
     ELSE CompareWeights([i \in DOMAIN a |-> TertiaryWeight(a[i])],
                         [i \in DOMAIN b |-> TertiaryWeight(b[i])])

\* the code unit of a character, for the ordinal comparison of strings
CodeUnit(c) ==
  IF c = "-" THEN 45
  ELSE IF c \in Digit THEN 47 + IndexIn(DigitSeq, c)
  ELSE IF c \in Upper THEN 64 + IndexIn(UpperSeq, c)
  ELSE IF c = "_" THEN 95
  ELSE 96 + IndexIn(LowerSeq, c)

\* a < b in code-unit (ordinal) order
OrdinalLess(a, b) ==
  CompareWeights([i \in DOMAIN a |-> CodeUnit(a[i])],
                 [i \in DOMAIN b |-> CodeUnit(b[i])]) < 0

\* ------------------------------------------------------------ static scan
\* the result of trying a regular expression at one index: end is the index
\* after the match and cap the text of capture group 1
NoMatch == [ok |-> FALSE, end |-> 0, cap |-> <<>>]

\* ['"^](\w+)['"^] with the opening quote at index q
QuotedWordAt(s, q) ==
  IF ~CharIn(s, q, QuoteChar) THEN NoMatch
  ELSE LET e == SkipClass(s, q + 1, WordChar)
       IN IF e = q + 1 \/ ~CharIn(s, e, QuoteChar) THEN NoMatch
          ELSE [ok |-> TRUE, end |-> e + 1, cap |-> SubSeq(s, q + 1, e - 1)]

\* ===? at index i: the index after it, or 0
EqOpEnd(s, i) ==
  IF At(s, i, <<"=","=","=">>) THEN i + 3 ELSE IF At(s, i, <<"=","=">>) THEN i + 2 ELSE 0

\* \s*===?\s*['"^](\w+)['"^] at index i
EqualsQuotedAt(s, i) ==
  LET e == EqOpEnd(s, SkipClass(s, i, SpaceChar))
  IN IF e = 0 THEN NoMatch ELSE QuotedWordAt(s, SkipClass(s, e, SpaceChar))

\* /case\s+['"^](\w+)['"^]\s*:/
CaseLabelAt(s, i) ==
  IF ~At(s, i, <<"c","a","s","e">>) THEN NoMatch
  ELSE LET b == SkipClass(s, i + 4, SpaceChar)
           m == QuotedWordAt(s, b)
           c == SkipClass(s, m.end, SpaceChar)
       IN IF b = i + 4 \/ ~m.ok \/ ~At(s, c, <<":">>) THEN NoMatch
          ELSE [m EXCEPT !.end = c + 1]

\* /args\[0\]\s*===?\s*['"^](\w+)['"^]/
ArgsZeroAt(s, i) ==
  IF ~At(s, i, <<"a","r","g","s","[","0","]">>) THEN NoMatch ELSE EqualsQuotedAt(s, i + 7)

\* /command\s*===?\s*['"^](\w+)['"^]/
CommandVarAt(s, i) ==
  IF ~At(s, i, <<"c","o","m","m","a","n","d">>) THEN NoMatch ELSE EqualsQuotedAt(s, i + 7)

\* /if\s*\(\s*\w+\s*===?\s*['"^](\w+)['"^]\s*\)/
IfEqualsAt(s, i) ==
  IF ~At(s, i, <<"i","f">>) THEN NoMatch
  ELSE LET a == SkipClass(s, i + 2, SpaceChar)
           b == SkipClass(s, a + 1, SpaceChar)
           c == SkipClass(s, b, WordChar)
           m == EqualsQuotedAt(s, c)
           d == SkipClass(s, m.end, SpaceChar)
       IN IF ~At(s, a, <<"(">>) \/ c = b \/ ~m.ok \/ ~At(s, d, <<")">>) THEN NoMatch
          ELSE [m EXCEPT !.end = d + 1]

\* the four expressions of commandPatterns, in the order of the array
commandPatterns(p, s, i) ==
  CASE p = 1 -> CaseLabelAt(s, i)
    [] p = 2 -> ArgsZeroAt(s, i)
    [] p = 3 -> CommandVarAt(s, i)
    [] OTHER -> IfEqualsAt(s, i)

\* (-{1,2}[\w-]+)['"^] with the opening quote at index q: a dash, then at
\* least one more of [\w-], the run ending at a quote
QuotedDashAt(s, q) ==
  IF ~CharIn(s, q, QuoteChar) \/ ~At(s, q + 1, <<"-">>) THEN NoMatch
  ELSE LET e == SkipClass(s, q + 1, WordDashChar)
       IN IF e < q + 3 \/ ~CharIn(s, e, QuoteChar) THEN NoMatch
          ELSE [ok |-> TRUE, end |-> e + 1, cap |-> SubSeq(s, q + 1, e - 1)]

\* the alternatives of (?:===|==|case|includes\(|indexOf\() in their order
FlagOperands == << <<"=","=","=">>, <<"=","=">>, <<"c","a","s","e">>, <<"i","n","c","l","u","d","e","s","(">>, <<"i","n","d","e","x","O","f","(">> >>

\* /(?:===|==|case|includes\(|indexOf\()\s*['"^](-{1,2}[\w-]+)['"^]/: the
\* first alternative after which the rest matches
FlagLiteralAt(s, i) ==
  LET try(k) == IF At(s, i, FlagOperands[k])
                THEN QuotedDashAt(s, SkipClass(s, i + Len(FlagOperands[k]), SpaceChar))
                ELSE NoMatch
      hits == {k \in DOMAIN FlagOperands : try(k).ok}
  IN IF hits = {} THEN NoMatch ELSE try(CHOOSE k \in hits : \A j \in hits : k <= j)

\* the alternatives of (?:argv|opts|flags)
FlagObjects == << <<"a","r","g","v">>, <<"o","p","t","s">>, <<"f","l","a","g","s">> >>

\* /(?:argv|opts|flags)\.([a-zA-Z0-9_]+)/
FlagPropertyAt(s, i) ==
  LET hits == {k \in DOMAIN FlagObjects : At(s, i, FlagObjects[k] \o <<".">>)}
  IN IF hits = {} THEN NoMatch
     ELSE LET a == i + Len(FlagObjects[CHOOSE k \in hits : TRUE]) + 1
              e == SkipClass(s, a, PropChar)
          IN IF e = a THEN NoMatch
             ELSE [ok |-> TRUE, end |-> e, cap |-> SubSeq(s, a, e - 1)]

\* the two expressions of flagPatterns, in the order of the array
flagPatterns(p, s, i) ==
  CASE p = 1 -> FlagLiteralAt(s, i)
    [] OTHER -> FlagPropertyAt(s, i)

\* one of the six expressions above, tried at index i of s
PatternAt(kind, p, s, i) ==
  IF kind = "command" THEN commandPatterns(p, s, i) ELSE flagPatterns(p, s, i)

\* while ((match = pattern.exec(code)) !== null): capture group 1 of every
\* match of a /g expression, leftmost first, each search resuming where the
\* previous match ended
RECURSIVE ExecAll(_, _, _, _)
ExecAll(kind, p, s, from) ==
  LET hits == {i \in from..Len(s) : PatternAt(kind, p, s, i).ok}
  IN IF hits = {} THEN <<>>
     ELSE LET i == CHOOSE j \in hits : \A k \in hits : j <= k
              m == PatternAt(kind, p, s, i)
          IN <<m.cap>> \o ExecAll(kind, p, s, m.end)

\* the captures of every pattern of an array of n patterns, pattern by pattern
RECURSIVE CapturesFrom(_, _, _, _)
CapturesFrom(kind, p, n, s) ==
  IF p > n THEN <<>> ELSE ExecAll(kind, p, s, 1) \o CapturesFrom(kind, p + 1, n, s)

\* the stoplist without its last two tokens
CommandStoplistShort ==
  << <<"h","e","l","p">>, <<"v","e","r","s","i","o","n">>, <<"d","e","f","a","u","l","t">>, <<"t","r","u","e">>, <<"f","a","l","s","e">>,
     <<"c","o","m","m","a","n","d">>, <<"c","m","d">>, <<"a","c","t","i","o","n">> >>

\* the generic tokens a command literal must not be, compared in lower case
CommandStoplist ==
  << <<"h","e","l","p">>, <<"v","e","r","s","i","o","n">>, <<"d","e","f","a","u","l","t">>, <<"t","r","u","e">>, <<"f","a","l","s","e">>,
     <<"c","o","m","m","a","n","d">>, <<"c","m","d">>, <<"a","c","t","i","o","n">>, <<"e","r","r","o","r">>, <<"e","x","i","t">> >>

\* the first list a flag must not be in: degenerate tokens, the tool's own
\* help flags and array and string method names
FlagStoplist ==
  << <<"-","-">>, <<"-">>, <<"-","1">>, <<"-","-","-">>, <<"-","-","h","e","l","p">>, <<"-","h">>, <<"-","-","p","u","s","h">>, <<"-","-","p","o","p">>,
     <<"-","-","s","h","i","f","t">>, <<"-","-","u","n","s","h","i","f","t">>, <<"-","-","s","l","i","c","e">>, <<"-","-","s","p","l","i","c","e">>, <<"-","-","m","a","p">>,
     <<"-","-","f","i","l","t","e","r">>, <<"-","-","r","e","d","u","c","e">>, <<"-","-","f","o","r","E","a","c","h">>, <<"-","-","f","i","n","d">>, <<"-","-","j","o","i","n">>,
     <<"-","-","i","n","c","l","u","d","e","s">>, <<"-","-","i","n","d","e","x","O","f">>, <<"-","-","t","o","S","t","r","i","n","g">>, <<"-","-","l","e","n","g","t","h">>, <<"-","-","c","o","n","c","a","t">> >>

\* the placeholder names a flag must not be
FlagPlaceholders ==
  << <<"-","-","f","l","a","g">>, <<"-","-","c","m","d">>, <<"-","-","o","p","t">>, <<"-","-","a","r","g">>, <<"-","-","a","r","g","s">>, <<"-","-","f","o","o">>, <<"-","-","b","a","r">> >>

\* Set.prototype.add on a Set kept as the sequence of its insertion order
SetAdd(set, x) == IF Includes(set, x) THEN set ELSE Append(set, x)

\* the test of line 206 on one captured literal
CommandAccepted(cmd) == cmd # <<>> /\ ~Includes(CommandStoplist, ToLower(cmd))

\* lines 204-209 for the captures of the command patterns, in order
RECURSIVE AddCommands(_, _)
AddCommands(set, caps) ==
  IF caps = <<>> THEN set
  ELSE AddCommands(IF CommandAccepted(Head(caps)) THEN SetAdd(set, Head(caps)) ELSE set,
                   Tail(caps))

\* every capture without a dash given two dashes, whatever its length
NormalizeFlagLong(cap) == IF StartsWith(cap, <<"-">>) THEN cap ELSE <<"-","-">> \o cap

\* lines 221-225: a capture that does not start with a dash gets one dash
\* when it is one character long and two otherwise
NormalizeFlag(cap) ==
  IF StartsWith(cap, <<"-">>) THEN cap
  ELSE IF Len(cap) = 1 THEN <<"-">> \o cap ELSE <<"-","-">> \o cap

\* /^-{1,2}[a-zA-Z]/.test(flag)
FlagShape(flag) ==
  \/ (At(flag, 1, <<"-">>) /\ CharIn(flag, 2, Letter))
  \/ (At(flag, 1, <<"-","-">>) /\ CharIn(flag, 3, Letter))

\* the tests of lines 226-228 on one normalized flag
FlagAccepted(flag) ==
  /\ flag # <<>>
  /\ ~Includes(FlagStoplist, flag)
  /\ ~Includes(FlagPlaceholders, flag)
  /\ FlagShape(flag)

\* lines 220-232 for the captures of the flag patterns, in order
RECURSIVE AddFlags(_, _)
AddFlags(set, caps) ==
  IF caps = <<>> THEN set
  ELSE LET flag == NormalizeFlag(Head(caps))
       IN AddFlags(IF FlagAccepted(flag) THEN SetAdd(set, flag) ELSE set, Tail(caps))

\* code.match(/Usage:\s*(.+)/i): the candidates at one occurrence of
\* "usage:", the white space run tried longest first, and (.+) the rest of
\* the line (a dot matches no line break)
UsageAt(s, i) ==
  LET a == i + 6
      g == SkipClass(s, a, SpaceChar)
      lineEnd(j) == SkipClass(s, j, DotChar)
      ok == {j \in a..g : lineEnd(j) > j}
  IN IF ~AtNoCase(s, i, <<"u","s","a","g","e",":">>) \/ ok = {} THEN NoMatch
     ELSE LET j == CHOOSE k \in ok : \A l \in ok : k >= l
          IN [ok |-> TRUE, end |-> lineEnd(j), cap |-> SubSeq(s, j, lineEnd(j) - 1)]

\* lines 235-238: the first match of the usage expression, trimmed
UsageOf(s) ==
  LET hits == {i \in 1..Len(s) : UsageAt(s, i).ok}
  IN IF hits = {} THEN <<>>
     ELSE <<Trim(UsageAt(s, CHOOSE j \in hits : \A k \in hits : j <= k).cap)>>

\* ------------------------------------------------------------ help text
\* the section names of /^(Commands|Usage|Options|Flags):/i
SectionHeaders == << <<"c","o","m","m","a","n","d","s",":">>, <<"u","s","a","g","e",":">>, <<"o","p","t","i","o","n","s",":">>, <<"f","l","a","g","s",":">> >>

\* /^(Commands|Usage|Options|Flags):/i.test(trimmed)
IsSectionHeader(trimmed) == \E k \in DOMAIN SectionHeaders : AtNoCase(trimmed, 1, SectionHeaders[k])

\* the name before the colon, in the case it is written in
SectionOfExact(trimmed) == Split(trimmed, ":")[1]

\* trimmed.split(':')[0].toLowerCase()
SectionOf(trimmed) == ToLower(Split(trimmed, ":")[1])

\* \s+(.+)$ at index e of a line: the white space run takes all it can and
\* gives one character back when nothing follows it
TailDesc(line, e) ==
  LET w == SkipClass(line, e, SpaceChar)
  IN IF w = e THEN NoMatch
     ELSE IF w <= Len(line) THEN [ok |-> TRUE, end |-> Len(line) + 1, cap |-> SubSeq(line, w, Len(line))]
     ELSE IF w - e >= 2 THEN [ok |-> TRUE, end |-> Len(line) + 1, cap |-> SubSeq(line, w - 1, w - 1)]
     ELSE NoMatch

\* line.match(/^\s{2,}(\w[\w-]*)\s+(.+)$/): [ok, name, desc]
CommandLine(line) ==
  LET a == SkipClass(line, 1, SpaceChar)
      e == SkipClass(line, a, WordDashChar)
      t == TailDesc(line, e)
  IN IF a < 3 \/ ~CharIn(line, a, WordChar) \/ ~t.ok
     THEN [ok |-> FALSE, name |-> <<>>, desc |-> <<>>]
     ELSE [ok |-> TRUE, name |-> SubSeq(line, a, e - 1), desc |-> t.cap]

\* (?:,\s+-[a-zA-Z0-9-]+)* from index e: the index after the last repetition
RECURSIVE MoreFlagNames(_, _)
MoreFlagNames(line, e) ==
  LET w == SkipClass(line, e + 1, SpaceChar)
      f == SkipClass(line, w + 1, AlnumDashChar)
  IN IF At(line, e, <<",">>) /\ w > e + 1 /\ At(line, w, <<"-">>) /\ f > w + 1
     THEN MoreFlagNames(line, f)
     ELSE e

\* names.find(n => n.startsWith('--')) || names[0]
PrimaryName(names) ==
  LET long == {k \in DOMAIN names : StartsWith(names[k], <<"-","-">>)}
  IN IF long = {} THEN names[1] ELSE names[CHOOSE k \in long : \A j \in long : k <= j]

\* line.match(/^\s{2,}(-[a-zA-Z0-9-]+(?:,\s+-[a-zA-Z0-9-]+)*)\s+(.+)$/) and
\* the choice of the primary name: [ok, name, desc]
FlagLine(line) ==
  LET a == SkipClass(line, 1, SpaceChar)
      b == SkipClass(line, a + 1, AlnumDashChar)
      e == MoreFlagNames(line, b)
      t == TailDesc(line, e)
      split == Split(SubSeq(line, a, e - 1), ",")
      names == [k \in DOMAIN split |-> Trim(split[k])]
  IN IF a < 3 \/ ~At(line, a, <<"-">>) \/ b = a + 1 \/ ~t.ok
     THEN [ok |-> FALSE, name |-> <<>>, desc |-> <<>>]
     ELSE [ok |-> TRUE, name |-> PrimaryName(names), desc |-> t.cap]

\* the loop of parseHelpOutput from line k on, section being the cursor
\* (<<>> while it is null) and result the records collected so far
RECURSIVE ParseLines(_, _, _, _)
ParseLines(lines, k, section, result) ==
  IF k > Len(lines) THEN result
  ELSE LET line == lines[k]
           trimmed == Trim(line)
           c == CommandLine(line)
           f == FlagLine(line)
       IN IF IsSectionHeader(trimmed) THEN ParseLines(lines, k + 1, SectionOf(trimmed), result)
          ELSE IF trimmed = <<>> THEN ParseLines(lines, k + 1, section, result)
          ELSE IF section = <<"c","o","m","m","a","n","d","s">>
          THEN ParseLines(lines, k + 1, section,
                 IF c.ok THEN [result EXCEPT !.commands = Append(@, [name |-> c.name, desc |-> c.desc])]
                 ELSE result)
          ELSE IF section = <<"o","p","t","i","o","n","s">> \/ section = <<"f","l","a","g","s">>
          THEN ParseLines(lines, k + 1, section,
                 IF f.ok THEN [result EXCEPT !.flags = Append(@, [name |-> f.name, desc |-> f.desc])]
                 ELSE result)
          ELSE ParseLines(lines, k + 1, section, result)

NoData == [commands |-> <<>>, flags |-> <<>>]

parseHelpOutput(output) == ParseLines(Split(output, "\n"), 1, <<>>, NoData)

\* ------------------------------------------------------------ merge
\* a set that leaves the value of an existing key alone
MapSetKeepFirst(map, name, desc) ==
  IF \E i \in DOMAIN map : map[i].name = name THEN map
  ELSE Append(map, [name |-> name, desc |-> desc])

\* Map.prototype.set on a Map kept as the sequence of its entries in
\* insertion order: an existing key keeps its place and takes the new value
MapSet(map, name, desc) ==
  IF \E i \in DOMAIN map : map[i].name = name
  THEN [i \in DOMAIN map |-> IF map[i].name = name THEN [name |-> name, desc |-> desc] ELSE map[i]]
  ELSE Append(map, [name |-> name, desc |-> desc])

\* staticCommands.forEach(cmd => commandMap.set(cmd, ''))
RECURSIVE SeedStatic(_, _)
SeedStatic(map, static) ==
  IF static = <<>> THEN map ELSE SeedStatic(MapSet(map, Head(static), <<>>), Tail(static))

\* an overlay that only describes the names the map already holds
RECURSIVE OverlayExistingOnly(_, _)
OverlayExistingOnly(map, dynamic) ==
  IF dynamic = <<>> THEN map
  ELSE OverlayExistingOnly(
         IF \E i \in DOMAIN map : map[i].name = Head(dynamic).name
         THEN MapSet(map, Head(dynamic).name, Head(dynamic).desc) ELSE map,
         Tail(dynamic))

\* dynamicData.commands.forEach(cmd => commandMap.set(cmd.name, cmd.desc))
RECURSIVE OverlayDynamic(_, _)
OverlayDynamic(map, dynamic) ==
  IF dynamic = <<>> THEN map
  ELSE OverlayDynamic(MapSet(map, Head(dynamic).name, Head(dynamic).desc), Tail(dynamic))

\* the comparison function handed to sort
CompareByName(a, b) == localeCompare(a.name, b.name)

\* one record put into a sorted array, after the records that do not
\* compare greater than it
InsertSorted(sorted, r) ==
  LET after == {i \in DOMAIN sorted : CompareByName(sorted[i], r) <= 0}
      n == IF after = {} THEN 0 ELSE CHOOSE i \in after : \A j \in after : i >= j
  IN SubSeq(sorted, 1, n) \o <<r>> \o SubSeq(sorted, n + 1, Len(sorted))

\* an array left in the order of insertion
Unsorted(arr) == arr

\* Array.prototype.sort with the comparison function above (a stable sort)
RECURSIVE SortByName(_)
SortByName(arr) ==
  IF arr = <<>> THEN <<>>
  ELSE InsertSorted(SortByName(SubSeq(arr, 1, Len(arr) - 1)), arr[Len(arr)])

\* lines 245-253 and, for the flags, 256-264
Merge(static, dynamic) == SortByName(OverlayDynamic(SeedStatic(<<>>, static), dynamic))

\* ------------------------------------------------------------ repository
\* [^\/]
NotSlash == TextChar \ {"/"}
\* [^\/\.]
NotSlashDot == TextChar \ {"/", "."}
\* [^\/\.\s]
NotSlashDotSpace == NotSlashDot \ SpaceChar

NoRepo == [found |-> FALSE, user |-> <<>>, repo |-> <<>>]

\* github\.com[\/:]([^\/]+)\/(<repoClass>+) tried at index i: the user runs
\* to the next slash and the repository name as far as repoClass goes
GithubAt(s, i, repoClass) ==
  LET a == i + 11
      u == SkipClass(s, a, NotSlash)
      r == SkipClass(s, u + 1, repoClass)
  IN IF At(s, i, <<"g","i","t","h","u","b",".","c","o","m">>) /\ CharIn(s, i + 10, {"/", ":"})
        /\ u > a /\ At(s, u, <<"/">>) /\ r > u + 1
     THEN [found |-> TRUE, user |-> SubSeq(s, a, u - 1), repo |-> SubSeq(s, u + 1, r - 1)]
     ELSE NoRepo

\* String.prototype.match with one of the two expressions: the leftmost match
GithubMatch(s, repoClass) ==
  LET hits == {i \in 1..Len(s) : GithubAt(s, i, repoClass).found}
  IN IF hits = {} THEN NoRepo
     ELSE GithubAt(s, CHOOSE i \in hits : \A j \in hits : i <= j, repoClass)

\* String.prototype.replace(pattern, '') with a string pattern: the first
\* occurrence is removed
RemoveFirst(s, p) ==
  LET hits == {i \in 1..Len(s) : At(s, i, p)}
  IN IF hits = {} THEN s
     ELSE LET i == CHOOSE j \in hits : \A k \in hits : j <= k
          IN SubSeq(s, 1, i - 1) \o SubSeq(s, i + Len(p), Len(s))

\* ------------------------------------------------------------ inputs
\* a manifest field that holds a path: undefined, a string or a number
Undef == [k |-> "undef", s |-> ""]
Path(p) == [k |-> "str", s |-> p]
Num == [k |-> "num", s |-> ""]

\* the repository field: undefined, a string, a number, or an object whose
\* url is undefined, a string or a number
RepoUndef == [k |-> "undef", s |-> <<>>, url |-> "undef"]
RepoStr(s) == [k |-> "str", s |-> s, url |-> "undef"]
RepoNum == [k |-> "num", s |-> <<>>, url |-> "undef"]
RepoObj == [k |-> "obj", s |-> <<>>, url |-> "undef"]
RepoUrl(s) == [k |-> "obj", s |-> s, url |-> "str"]
RepoUrlNum == [k |-> "obj", s |-> <<>>, url |-> "num"]

\* the value JSON.parse returns for package.json: null, a number, or an
\* object, of which the fields the script reads are kept ("" and <<>> stand
\* for an absent field, which the script treats like an empty one)
JsonNull ==
  [t |-> "null", name |-> "", description |-> "", version |-> "", license |-> "",
   author |-> "", scripts |-> <<>>, bin |-> <<>>, keywords |-> <<>>, main |-> Undef,
   repository |-> RepoUndef]
JsonNum == [JsonNull EXCEPT !.t = "num"]
Manifest(name, main, bin, repository) ==
  [JsonNull EXCEPT !.t = "obj", !.name = name, !.main = main, !.bin = bin,
                   !.repository = repository]

\* a file: absent, unreadable (reading it throws) or a text
Absent == [k |-> "absent", text |-> <<>>]
Unreadable == [k |-> "unreadable", text |-> <<>>]
Invalid == [k |-> "invalid", text |-> <<>>]
Text(t) == [k |-> "text", text |-> t]

\* path.basename(absPath)
DirBaseName == "project"

\* the options the tool is run with
Options == {"--help", "--json", "--force", "--stdout", "--badges", "-h", "-j", "-f", "-s", "-b"}

\* lines 10-16: the flags object built from the arguments
ParseFlags(args) ==
  [help |-> "--help" \in args \/ "-h" \in args,
   json |-> "--json" \in args \/ "-j" \in args,
   force |-> "--force" \in args \/ "-f" \in args,
   stdout |-> "--stdout" \in args \/ "-s" \in args,
   badges |-> "--badges" \in args \/ "-b" \in args]

\* the truth value of flags[key]: a property the object lacks is undefined
Flag(flags, key) == IF key \in DOMAIN flags THEN flags[key] ELSE FALSE

\* ------------------------------------------------------------ rendering
\* a README is a sequence of lines, a line a sequence of pieces of text
Row(name, desc) == << "| ^" >> \o name \o << "^ | " >> \o desc \o << " |" >>

RECURSIVE Rows(_)
Rows(records) ==
  IF records = <<>> THEN <<>> ELSE <<Row(Head(records).name, Head(records).desc)>> \o Rows(Tail(records))

Badge(kind, path, github) ==
  << "![" , kind, "](https://img.shields.io/github/", path, "/" >> \o github.user \o << "/" >> \o github.repo \o << ")" >>

RECURSIVE ScriptLines(_, _)
ScriptLines(scripts, n) ==
  IF scripts = <<>> \/ n = 0 THEN <<>>
  ELSE << <<"npm run ", Head(scripts)>> >> \o ScriptLines(Tail(scripts), n - 1)

\* lines 278-370 (the copyright sign of the license line is written "(c)")
GenerateReadme(a, flags, binCommands) ==
  LET usefulScripts == SelectSeq(a.scripts, LAMBDA s : s # "test")
  IN << <<"# ", a.name>>, <<>>, <<a.description>>, <<>> >>
     \o (IF Flag(flags, "badges") /\ a.github.found
         THEN << Badge("License", "license", a.github), Badge("Version", "package-json/v", a.github),
                 Badge("Stars", "stars", a.github), <<>> >>
         ELSE <<>>)
     \o << <<"## Installation">>, <<>>, <<"^^^bash">> >>
     \o (IF Len(binCommands) > 0
         THEN << <<"npm install -g ", a.name>>, <<"# or">>, <<"npx ", a.name>> >>
         ELSE << <<"npm install ", a.name>> >>)
     \o << <<"^^^">>, <<>>, <<"## Usage">>, <<>> >>
     \o (IF Len(binCommands) > 0
         THEN << <<"^^^bash">>, <<binCommands[1], " --help">>, <<"^^^">>, <<>> >>
         ELSE <<>>)
     \o (IF Len(a.commands) > 0
         THEN << <<"### Commands">>, <<>>, <<"| Command | Description |">>, <<"|---------|-------------|">> >>
              \o Rows(a.commands) \o << <<>> >>
         ELSE <<>>)
     \o (IF Len(a.flags) > 0
         THEN << <<"### Options">>, <<>>, <<"| Option | Description |">>, <<"|--------|-------------|">> >>
              \o Rows(a.flags) \o << <<>> >>
         ELSE <<>>)
     \o << <<"## Examples">>, <<>>, <<"^^^bash">> >>
     \o (IF Len(binCommands) > 0
         THEN IF Len(a.commands) > 0
              THEN << <<"# ">> \o (IF a.commands[1].desc # <<>> THEN a.commands[1].desc ELSE a.commands[1].name),
                      <<binCommands[1], " ">> \o a.commands[1].name >>
              ELSE << <<binCommands[1]>> >>
         ELSE << <<"node ", a.main.s>> >>)
     \o << <<"^^^">>, <<>> >>
     \o (IF Len(usefulScripts) > 0
         THEN << <<"## Development">>, <<>>, <<"^^^bash">> >> \o ScriptLines(usefulScripts, 3) \o << <<"^^^">>, <<>> >>
         ELSE <<>>)
     \o << <<"## License">>, <<>>,
           <<a.license>> \o (IF a.author # "" THEN <<" (c) ", a.author>> ELSE <<>>) >>

\* ------------------------------------------------------------ state
VARIABLES
  fs,              \* the target directory: dir (it exists), pkg, gitConfig and files
  probe,           \* what running ^node <main> --help^ in it does
  readme,          \* <dir>/README.md: [exists, content]
  flags,           \* the flags object of the current run
  pc,              \* the statement the current run has reached
  exitCode,        \* the status the current run ended with, -1 while it runs
  printed,         \* what the current run wrote to its output streams
  pkg,             \* the parsed manifest
  analysis,        \* the analysis object
  dynamicData,     \* the records parsed from the probed help output
  staticCommands,  \* the Set of scanned command names, in insertion order
  staticFlags,     \* the Set of scanned flag names, in insertion order
  runs,            \* the number of runs started
  history          \* the previous run and, once it has ended, the current one:
                   \* [flags, exit, before, after], before and after being README.md

vars == <<fs, probe, readme, flags, pc, exitCode, printed, pkg, analysis, dynamicData,
          staticCommands, staticFlags, runs, history>>

NoFile == [exists |-> FALSE, content |-> <<>>]

NoFlags == ParseFlags({})

NoAnalysis ==
  [name |-> "", description |-> "", version |-> "", license |-> "", author |-> "",
   scripts |-> <<>>, bin |-> <<>>, keywords |-> <<>>, main |-> Undef,
   commands |-> <<>>, flags |-> <<>>, usage |-> <<>>, github |-> NoRepo]

\* fs.existsSync and fs.readFileSync look a path up in the directory
FileAt(path) == IF path \in DOMAIN fs.files THEN fs.files[path] ELSE Absent

\* the state of a process that has not run a statement yet
Fresh ==
  /\ flags = NoFlags
  /\ pc = "start"
  /\ exitCode = -1
  /\ printed = "nothing"
  /\ pkg = JsonNull
  /\ analysis = NoAnalysis
  /\ dynamicData = NoData
  /\ staticCommands = <<>>
  /\ staticFlags = <<>>

\* the finished run e after the runs h before it
Push(h, e) == Append(h, e)

\* process.exit(code), the end of the script, or an exception nobody catches
Exit(code, out, f, after) ==
  /\ pc' = "exited"
  /\ exitCode' = code
  /\ printed' = out
  /\ history' = Push(history, [flags |-> f, exit |-> code, before |-> readme, after |-> after])

Goto(label) ==
  /\ pc' = label
  /\ UNCHANGED <<exitCode, printed, history>>

\* ------------------------------------------------------------ the script
\* lines 7-49: the flags, and the help text
Start(args) ==
  /\ pc = "start"
  /\ flags' = ParseFlags(args)
  /\ IF ParseFlags(args).help THEN Exit(0, "help", ParseFlags(args), readme) ELSE Goto("checkDir")
  /\ UNCHANGED <<fs, probe, readme, pkg, analysis, dynamicData, staticCommands, staticFlags, runs>>

\* lines 51-57
CheckDir ==
  /\ pc = "checkDir"
  /\ IF ~fs.dir THEN Exit(1, "Error: Directory not found", flags, readme) ELSE Goto("checkReadme")
  /\ UNCHANGED <<fs, probe, readme, flags, pkg, analysis, dynamicData, staticCommands, staticFlags, runs>>

\* the condition of line 61
ReadmeGuard ==
  readme.exists /\ ~Flag(flags, "force") /\ ~Flag(flags, "stdout")
    /\ ~(~Flag(flags, "human") /\ ~Flag(flags, "H"))

\* lines 59-64
CheckReadme ==
  /\ pc = "checkReadme"
  /\ IF ReadmeGuard THEN Exit(1, "Error: README.md already exists", flags, readme) ELSE Goto("readPkg")
  /\ UNCHANGED <<fs, probe, readme, flags, pkg, analysis, dynamicData, staticCommands, staticFlags, runs>>

\* lines 66-79
ReadPkg ==
  /\ pc = "readPkg"
  /\ IF fs.pkg.k = "absent" THEN Exit(1, "Error: No package.json found", flags, readme) /\ pkg' = pkg
     ELSE IF fs.pkg.k = "invalid" THEN Exit(1, "Error: Invalid package.json", flags, readme) /\ pkg' = pkg
     ELSE Goto("analyze") /\ pkg' = fs.pkg.json
  /\ UNCHANGED <<fs, probe, readme, flags, analysis, dynamicData, staticCommands, staticFlags, runs>>

\* a || b on strings
OrElse(a, b) == IF a # "" THEN a ELSE b

\* lines 81-96; reading a property of null throws a TypeError
Analyze ==
  /\ pc = "analyze"
  /\ IF pkg.t = "null" THEN Exit(1, "TypeError", flags, readme) /\ analysis' = analysis
     ELSE /\ Goto("detectRepo")
          /\ analysis' =
               [name |-> OrElse(pkg.name, DirBaseName),
                description |-> OrElse(pkg.description, "A CLI tool"),
                version |-> OrElse(pkg.version, "1.0.0"),
                license |-> OrElse(pkg.license, "MIT"),
                author |-> pkg.author,
                scripts |-> pkg.scripts,
                bin |-> pkg.bin,
                keywords |-> pkg.keywords,
                main |-> IF pkg.main.k = "undef" \/ (pkg.main.k = "str" /\ pkg.main.s = "")
                         THEN Path("index.js") ELSE pkg.main,
                commands |-> <<>>, flags |-> <<>>, usage |-> <<>>, github |-> NoRepo]
  /\ UNCHANGED <<fs, probe, readme, flags, pkg, dynamicData, staticCommands, staticFlags, runs>>

\* pkg.repository is truthy
HasRepository == pkg.repository.k \in {"obj", "num"} \/ (pkg.repository.k = "str" /\ pkg.repository.s # <<>>)

\* line 100: the kind of value repo is: "str", "num" or "undef"
RepoKind ==
  IF pkg.repository.k = "str" THEN "str"
  ELSE IF pkg.repository.k = "obj" THEN pkg.repository.url
  ELSE "undef"

\* lines 98-105; repo?.match on a repo that is no string and not undefined
\* throws a TypeError
DetectRepo ==
  /\ pc = "detectRepo"
  /\ IF HasRepository /\ RepoKind = "num" THEN Exit(1, "TypeError", flags, readme) /\ analysis' = analysis
     ELSE /\ Goto("gitRemote")
          /\ analysis' =
               IF HasRepository /\ RepoKind = "str"
               THEN [analysis EXCEPT !.github = GithubMatch(pkg.repository.s, NotSlashDot)]
               ELSE analysis
  /\ UNCHANGED <<fs, probe, readme, flags, pkg, dynamicData, staticCommands, staticFlags, runs>>

\* lines 110-117, inside the try
GitConfigRepo ==
  LET m == GithubMatch(fs.gitConfig.text, NotSlashDotSpace)
  IN IF fs.gitConfig.k = "text" /\ m.found
     THEN [m EXCEPT !.repo = RemoveFirst(m.repo, <<".","g","i","t">>)]
     ELSE NoRepo

\* lines 107-119
GitRemote ==
  /\ pc = "gitRemote"
  /\ Goto("probe")
  /\ analysis' =
       IF ~analysis.github.found /\ GitConfigRepo.found
       THEN [analysis EXCEPT !.github = GitConfigRepo]
       ELSE analysis
  /\ UNCHANGED <<fs, probe, readme, flags, pkg, dynamicData, staticCommands, staticFlags, runs>>

\* result.stdout of spawnSync: the whole output of a child that exited, what
\* a child killed at the timeout had written, nothing of a child that could
\* not be spawned
ProbeStdout == IF probe.outcome = "spawnfail" THEN <<>> ELSE probe.stdout

\* lines 158-177; path.join throws a TypeError on a path that is no string
Probe ==
  /\ pc = "probe"
  /\ IF analysis.main.k # "str" THEN Exit(1, "TypeError", flags, readme) /\ dynamicData' = dynamicData
     ELSE /\ Goto("scan")
          /\ dynamicData' =
               IF FileAt(analysis.main.s).k # "absent" /\ ProbeStdout # <<>>
               THEN parseHelpOutput(ProbeStdout)
               ELSE NoData
  /\ UNCHANGED <<fs, probe, readme, flags, pkg, analysis, staticCommands, staticFlags, runs>>

\* lines 183-187: the Set of files to analyze, in insertion order
RECURSIVE AddBinPaths(_, _)
AddBinPaths(set, bin) ==
  IF bin = <<>> THEN set ELSE AddBinPaths(SetAdd(set, Head(bin).path.s), Tail(bin))

filesToAnalyze == AddBinPaths(<<analysis.main.s>>, analysis.bin)

\* lines 192-238 for the text of one file
ScanCode(acc, code) ==
  [commands |-> AddCommands(acc.commands, CapturesFrom("command", 1, 4, code)),
   flags |-> AddFlags(acc.flags, CapturesFrom("flag", 1, 2, code)),
   usage |-> acc.usage \o UsageOf(code)]

\* lines 189-241: files that do not exist or cannot be read add nothing
RECURSIVE ScanFiles(_, _)
ScanFiles(acc, paths) ==
  IF paths = <<>> THEN acc
  ELSE ScanFiles(IF FileAt(Head(paths)).k = "text" THEN ScanCode(acc, FileAt(Head(paths)).text) ELSE acc,
                 Tail(paths))

\* lines 179-241; path.join throws a TypeError on a bin path that is no string
Scan ==
  /\ pc = "scan"
  /\ IF \E i \in DOMAIN analysis.bin : analysis.bin[i].path.k # "str"
     THEN Exit(1, "TypeError", flags, readme) /\ UNCHANGED <<analysis, staticCommands, staticFlags>>
     ELSE LET found == ScanFiles([commands |-> <<>>, flags |-> <<>>, usage |-> <<>>], filesToAnalyze)
          IN /\ Goto("merge")
             /\ staticCommands' = found.commands
             /\ staticFlags' = found.flags
             /\ analysis' = [analysis EXCEPT !.usage = found.usage]
  /\ UNCHANGED <<fs, probe, readme, flags, pkg, dynamicData, runs>>

\* lines 243-270
MergeData ==
  /\ pc = "merge"
  /\ Goto("output")
  /\ analysis' = [analysis EXCEPT !.commands = Merge(staticCommands, dynamicData.commands),
                                  !.flags = Merge(staticFlags, dynamicData.flags)]
  /\ UNCHANGED <<fs, probe, readme, flags, pkg, dynamicData, staticCommands, staticFlags, runs>>

\* Object.keys(analysis.bin)
binCommands == [i \in DOMAIN analysis.bin |-> analysis.bin[i].cmd]

\* the condition of line 273
JsonBranch == ~Flag(flags, "human") /\ ~Flag(flags, "H")

\* lines 272-385
Output ==
  /\ pc = "output"
  /\ IF JsonBranch THEN Exit(0, "json", flags, readme) /\ readme' = readme
     ELSE IF Flag(flags, "stdout") THEN Exit(0, "readme", flags, readme) /\ readme' = readme
     ELSE LET written == [exists |-> TRUE, content |-> GenerateReadme(analysis, flags, binCommands)]
          IN Exit(0, "summary", flags, written) /\ readme' = written
  /\ UNCHANGED <<fs, probe, flags, pkg, analysis, dynamicData, staticCommands, staticFlags, runs>>

\* the tool is started again in the same directory
NextRun ==
  /\ pc = "exited"
  /\ runs < MaxRuns
  /\ runs' = runs + 1
  /\ flags' = NoFlags
  /\ pc' = "start"
  /\ exitCode' = -1
  /\ printed' = "nothing"
  /\ pkg' = JsonNull
  /\ analysis' = NoAnalysis
  /\ dynamicData' = NoData
  /\ staticCommands' = <<>>
  /\ staticFlags' = <<>>
  /\ history' = <<history[Len(history)]>>
  /\ UNCHANGED <<fs, probe, readme>>

\* ------------------------------------------------------------ projects
\* the paths of the entry points a project can have
Paths == {"index.js", "cli.js"}

Files(index, cli) == [p \in Paths |-> IF p = "index.js" THEN index ELSE cli]

Project(dir, manifest, gitConfig, files) ==
  [dir |-> dir, pkg |-> manifest, gitConfig |-> gitConfig, files |-> files]

Parsed(json) == [k |-> "json", json |-> json]
NoManifest == [k |-> "absent", json |-> JsonNull]
BadManifest == [k |-> "invalid", json |-> JsonNull]

Exited(stdout) == [outcome |-> "exit", stdout |-> stdout]
TimedOut(stdout) == [outcome |-> "timeout", stdout |-> stdout]
SpawnFailed == [outcome |-> "spawnfail", stdout |-> <<>>]

OldReadme == [exists |-> TRUE, content |-> << <<"# old">> >>]

ToolBin == << [cmd |-> "tool", path |-> Path("cli.js")] >>

\* an entry point with a switch label, an option test and a usage line
CliCode == <<"c","a","s","e"," ","'","b","u","i","l","d","'",":","\n","i","f"," ","(","o","p","t","s",".","f","o","r","c","e",")"," ","{","}","\n","/","/"," ","U","s","a","g","e",":"," ","t","o","o","l"," ","<","c","m","d",">","\n">>

\* the help output of that entry point, and what it has written of it when
\* the probe's timeout ends it
CliHelp == <<"U","s","a","g","e",":"," ","t","o","o","l"," ","<","c","m","d",">","\n","C","o","m","m","a","n","d","s",":","\n"," "," ","b","u","i","l","d"," "," ","B","u","i","l","d"," ","i","t","\n","O","p","t","i","o","n","s",":","\n"," "," ","-","f",","," ","-","-","f","o","r","c","e"," "," ","O","v","e","r","w","r","i","t","e","\n">>
CliHelpCut == <<"U","s","a","g","e",":"," ","t","o","o","l"," ","<","c","m","d",">","\n","C","o","m","m","a","n","d","s",":","\n"," "," ","b","u","i","l","d"," "," ","B","u","i">>

AcmeUrl == <<"h","t","t","p","s",":","/","/","g","i","t","h","u","b",".","c","o","m","/","a","c","m","e","/","w","i","d","g","e","t","s",".","g","i","t">>
AcmeGitConfig == <<"[","r","e","m","o","t","e"," ","\"","o","r","i","g","i","n","\"","]","\n","\t","u","r","l"," ","="," ","g","i","t","@","g","i","t","h","u","b",".","c","o","m",":","a","c","m","e","/","g","a","d","g","e","t","s",".","g","i","t","\n">>

\* the argument lists the tool is run with
ArgSets == {{}, {"--force"}, {"-s"}, {"--json"}, {"--help"}, {"-f", "--badges"}}
NoArgs == {{}}

\* manifests of the runs: the project of the end-to-end scenario, a project
\* whose main entry exists and has a repository, and manifests whose main,
\* bin path or repository url is a number
RunManifests ==
  { Manifest("tool", Undef, ToolBin, RepoUndef),
    Manifest("", Path("cli.js"), <<>>, RepoStr(AcmeUrl)),
    Manifest("tool", Num, <<>>, RepoUndef),
    Manifest("tool", Undef, << [cmd |-> "tool", path |-> Num] >>, RepoUndef),
    Manifest("tool", Undef, ToolBin, RepoUrlNum) }

RunProjects ==
  {Project(FALSE, NoManifest, Absent, Files(Absent, Absent))}
  \cup {Project(TRUE, m, Absent, Files(Absent, Text(CliCode))) :
          m \in {NoManifest, BadManifest, Parsed(JsonNull), Parsed(JsonNum)}}
  \cup {Project(TRUE, Parsed(m), g, Files(Absent, c)) :
          m \in RunManifests, g \in {Absent, Unreadable, Text(AcmeGitConfig)},
          c \in {Text(CliCode), Unreadable, Absent}}

\* what probing a project's main entry does: nothing comes out of an entry
\* that is not a readable file
Probes(project) ==
  IF project.pkg.k = "json" /\ project.pkg.json.main = Path("cli.js")
        /\ project.files["cli.js"].k = "text"
  THEN {Exited(CliHelp), TimedOut(CliHelpCut), TimedOut(<<>>), SpawnFailed}
  ELSE {Exited(<<>>)}

Init ==
  /\ fs \in RunProjects
  /\ probe \in Probes(fs)
  /\ readme \in {NoFile, OldReadme}
  /\ Fresh
  /\ runs = 1
  /\ history = <<>>

\* ------------------------------------------------------------ scanned texts
\* lines of source text, with what the patterns are to capture in each: cmd
\* the literal of a command pattern, lit the literal of the first flag
\* pattern, prop the property name of the second (<<>>: nothing)
Line(text, cmd, lit, prop) == [text |-> text, cmd |-> cmd, lit |-> lit, prop |-> prop]

SourceLines ==
  << Line(<<"c","a","s","e"," ","'","h","e","l","p","'",":">>, <<"h","e","l","p">>, <<>>, <<>>),
     Line(<<"c","a","s","e"," ","'","v","e","r","s","i","o","n","'",":">>, <<"v","e","r","s","i","o","n">>, <<>>, <<>>),
     Line(<<"c","a","s","e"," ","'","d","e","p","l","o","y","'",":">>, <<"d","e","p","l","o","y">>, <<>>, <<>>),
     Line(<<" "," ","c","a","s","e"," ","\"","B","u","i","l","d","\""," ",":">>, <<"B","u","i","l","d">>, <<>>, <<>>),
     Line(<<"c","a","s","e"," ","'","e","r","r","o","r","'",":">>, <<"e","r","r","o","r">>, <<>>, <<>>),
     Line(<<"i","f"," ","(","c","m","d"," ","=","=","="," ","'","r","u","n","'",")"," ","{">>, <<"r","u","n">>, <<>>, <<>>),
     Line(<<"i","f"," ","(","a","r","g","s","[","0","]"," ","=","="," ","^","i","n","i","t","^",")">>, <<"i","n","i","t">>, <<>>, <<>>),
     Line(<<"}"," ","e","l","s","e"," ","i","f"," ","(","c","o","m","m","a","n","d"," ","=","=","="," ","'","E","x","i","t","'",")"," ","{">>, <<"E","x","i","t">>, <<>>, <<>>),
     Line(<<"i","f"," ","(","o","p","t","s",".","f",")"," ","r","e","t","u","r","n">>, <<>>, <<>>, <<"f">>),
     Line(<<"i","f"," ","(","o","p","t","s",".","f","o","r","c","e",")"," ","r","e","t","u","r","n">>, <<>>, <<>>, <<"f","o","r","c","e">>),
     Line(<<"a","r","g","v",".","p","u","s","h","(","x",")">>, <<>>, <<>>, <<"p","u","s","h">>),
     Line(<<"n"," ","="," ","f","l","a","g","s",".","f","o","o">>, <<>>, <<>>, <<"f","o","o">>),
     Line(<<"n"," ","="," ","o","p","t","s",".","9">>, <<>>, <<>>, <<"9">>),
     Line(<<"i","f"," ","(","a"," ","=","=","="," ","'","-","-","v","e","r","b","o","s","e","'",")"," ","{">>, <<>>, <<"-","-","v","e","r","b","o","s","e">>, <<>>),
     Line(<<"a","r","g","s",".","i","n","c","l","u","d","e","s","(","'","-","h","'",")">>, <<>>, <<"-","h">>, <<>>),
     Line(<<"c","a","s","e"," ","'","-","-","d","r","y","-","r","u","n","'",":">>, <<>>, <<"-","-","d","r","y","-","r","u","n">>, <<>>),
     Line(<<"c","a","s","e"," ","'","-","1","'",":">>, <<>>, <<"-","1">>, <<>>),
     Line(<<"/","/"," ","u","s","a","g","e",":"," "," ","t","o","o","l"," ","<","c","m","d",">"," ">>, <<>>, <<>>, <<>>) >>

\* the text of the stoplist scenario, three lines at once
ThreeLabels == <<"c","a","s","e"," ","'","h","e","l","p","'",":","\n","c","a","s","e"," ","'","v","e","r","s","i","o","n","'",":","\n","c","a","s","e"," ","'","d","e","p","l","o","y","'",":","\n">>

\* the texts of at most n lines
RECURSIVE TextsUpTo(_)
TextsUpTo(n) ==
  IF n = 0 THEN {<<>>}
  ELSE TextsUpTo(n - 1) \cup
       {t \o SourceLines[k].text \o <<"\n">> : t \in TextsUpTo(n - 1), k \in DOMAIN SourceLines}

ScanTexts == TextsUpTo(MaxSnippets) \cup {ThreeLabels}

InitScan ==
  /\ \E code \in ScanTexts :
       fs = Project(TRUE, Parsed(Manifest("tool", Undef, <<>>, RepoUndef)), Absent,
                    Files(Text(code), Absent))
  /\ probe = Exited(<<>>)
  /\ readme = NoFile
  /\ Fresh
  /\ runs = 1
  /\ history = <<>>

\* ------------------------------------------------------------ merged data
\* entry points whose labels and options differ in case and in length
MergeCodes ==
  { <<>>,
    <<"c","a","s","e"," ","'","a","'",":","\n","c","a","s","e"," ","'","B","'",":","\n","o","p","t","s",".","v","\n">>,
    <<"c","a","s","e"," ","'","B","'",":","\n","c","a","s","e"," ","'","d","e","p","l","o","y","'",":","\n","o","p","t","s",".","f","o","r","c","e","\n">>,
    <<"c","a","s","e"," ","'","b","'",":","\n","c","a","s","e"," ","'","a","_","b","'",":","\n","c","a","s","e"," ","'","a","-","b","'",":","\n","o","p","t","s",".","F","o","r","c","e","\n","o","p","t","s",".","f","\n">> }

\* lines of help output
HelpLines ==
  << <<"C","o","m","m","a","n","d","s",":">>, <<"O","P","T","I","O","N","S",":">>,
     <<" "," ","a"," "," "," "," "," "," "," ","f","i","r","s","t">>, <<" "," ","a"," "," "," "," "," "," "," ","a","g","a","i","n">>, <<" "," ","B"," "," ","s","e","c","o","n","d">>, <<" "," ","a","b"," "," ","t","h","i","r","d">>,
     <<" "," ","-","f",","," ","-","-","f","o","r","c","e"," "," ","O","v","e","r","w","r","i","t","e">>, <<" "," ","-","v"," "," "," "," "," "," ","V","e","r","b","o","s","e">> >>

RECURSIVE HelpsUpTo(_)
HelpsUpTo(n) ==
  IF n = 0 THEN {<<>>}
  ELSE HelpsUpTo(n - 1) \cup
       {t \o HelpLines[k] \o <<"\n">> : t \in HelpsUpTo(n - 1), k \in DOMAIN HelpLines}

InitMerge ==
  /\ \E code \in MergeCodes :
       fs = Project(TRUE, Parsed(Manifest("tool", Undef, <<>>, RepoUndef)), Absent,
                    Files(Text(code), Absent))
  /\ \E help \in HelpsUpTo(MaxHelpLines) : probe = Exited(help)
  /\ readme = NoFile
  /\ Fresh
  /\ runs = 1
  /\ history = <<>>

\* ------------------------------------------------------------ repositories
\* repository fields of a manifest
RepoFields ==
  { RepoUndef, RepoNum, RepoObj, RepoUrlNum,
    RepoStr(<<>>),
    RepoStr(AcmeUrl),
    RepoStr(<<"g","i","t","h","u","b",":","a","c","m","e","/","w","i","d","g","e","t","s">>),
    RepoUrl(<<"g","i","t","+","s","s","h",":","/","/","g","i","t","@","g","i","t","h","u","b",".","c","o","m",":","a","c","m","e","/","w","i","d","g","e","t","s",".","g","i","t">>),
    RepoUrl(<<"h","t","t","p","s",":","/","/","g","i","t","h","u","b",".","c","o","m","/","a","c","m","e","/","w","i","d","g","e","t","s","/","t","r","e","e","/","m","a","i","n">>),
    RepoUrl(<<"h","t","t","p","s",":","/","/","g","i","t","h","u","b",".","c","o","m","/","s","o","c","k","e","t","i","o","/","s","o","c","k","e","t",".","i","o",".","g","i","t">>),
    RepoUrl(<<"h","t","t","p","s",":","/","/","g","i","t","l","a","b",".","c","o","m","/","a","c","m","e","/","w","i","d","g","e","t","s",".","g","i","t">>) }

\* states of <dir>/.git/config
GitConfigs ==
  { Absent, Unreadable, Text(AcmeGitConfig),
    Text(<<"[","c","o","r","e","]","\n","\t","b","a","r","e"," ","="," ","f","a","l","s","e","\n">>),
    Text(<<"[","r","e","m","o","t","e"," ","\"","o","r","i","g","i","n","\"","]","\n","\t","u","r","l"," ","="," ","h","t","t","p","s",":","/","/","g","i","t","h","u","b",".","c","o","m","/","s","o","c","k","e","t","i","o","/","e","n","g","i","n","e",".","i","o","\n">>) }

InitRepo ==
  /\ \E r \in RepoFields, g \in GitConfigs :
       fs = Project(TRUE, Parsed(Manifest("tool", Undef, ToolBin, r)), g,
                    Files(Absent, Text(CliCode)))
  /\ probe = Exited(<<>>)
  /\ readme = NoFile
  /\ Fresh
  /\ runs = 1
  /\ history = <<>>

\* ------------------------------------------------------------ help texts
\* lines of help output: the four headers, in several cases and with text
\* after the colon, a line that looks like a header and is none, and lines
\* of the shape of a command and of a flag
CursorLines ==
  << <<"C","o","m","m","a","n","d","s",":">>, <<"U","s","a","g","e",":"," ","t","o","o","l"," ","<","c","m","d",">">>, <<"O","P","T","I","O","N","S",":">>, <<" "," ","f","l","a","g","s",":"," ","a","l","l">>,
     <<"A","r","g","u","m","e","n","t","s",":">>, <<>>,
     <<" "," ","b","u","i","l","d"," "," ","B","u","i","l","d"," ","i","t">>, <<" "," ","r","u","n"," "," "," "," "," ","R","u","n"," ","i","t">>,
     <<" "," ","-","f",","," ","-","-","f","o","r","c","e"," "," ","O","v","e","r","w","r","i","t","e">>, <<" "," ","-","v"," "," "," "," "," "," ","V","e","r","b","o","s","e">> >>

RECURSIVE CursorTextsUpTo(_)
CursorTextsUpTo(n) ==
  IF n = 0 THEN {<<>>}
  ELSE CursorTextsUpTo(n - 1) \cup
       {t \o CursorLines[k] \o <<"\n">> : t \in CursorTextsUpTo(n - 1), k \in DOMAIN CursorLines}

InitHelp ==
  /\ fs = Project(TRUE, Parsed(Manifest("tool", Undef, <<>>, RepoUndef)), Absent,
                  Files(Text(<<>>), Absent))
  /\ \E help \in CursorTextsUpTo(MaxHelpLines) : probe = Exited(help)
  /\ readme = NoFile
  /\ Fresh
  /\ runs = 1
  /\ history = <<>>

\* ------------------------------------------------------------ behaviours
Steps ==
  \/ CheckDir
  \/ CheckReadme
  \/ ReadPkg
  \/ Analyze
  \/ DetectRepo
  \/ GitRemote
  \/ Probe
  \/ Scan
  \/ MergeData
  \/ Output

\* the tool run again and again with any of the argument lists
Next ==
  \/ \E args \in ArgSets : Start(args)
  \/ Steps
  \/ NextRun

\* the tool run once without arguments
NextOnce ==
  \/ \E args \in NoArgs : Start(args)
  \/ Steps

Spec == Init /\ [][Next]_vars

SpecScan == InitScan /\ [][NextOnce]_vars

SpecMerge == InitMerge /\ [][NextOnce]_vars

SpecRepo == InitRepo /\ [][NextOnce]_vars

SpecHelp == InitHelp /\ [][NextOnce]_vars

\* ------------------------------------------------------------ properties
\* the run that has just ended, and the one before it
LastRun == history[Len(history)]
Ended == pc = "exited"

\* the flags of a run without options
Plain(f) == ~f.help /\ ~f.json /\ ~f.force /\ ~f.stdout /\ ~f.badges

\* a run with neither the overwrite option nor a preview option
Guarded(f) == ~f.help /\ ~f.json /\ ~f.force /\ ~f.stdout

\* C1 - Overwrite guard: when the tool has run without options on a
\* directory with a package.json and runs a second time with neither --force
\* nor --stdout nor --json, the second run ends with a non-zero status and
\* README.md is what the first run left.
C1_OverwriteGuard ==
  (/\ Ended /\ Len(history) = 2
   /\ fs.dir /\ fs.pkg.k = "json" /\ fs.pkg.json.t = "obj"
   /\ Plain(history[1].flags) /\ history[1].exit = 0
   /\ Guarded(history[2].flags))
  => (history[2].exit # 0 /\ history[2].after = history[1].after)

\* text holds a case label whose literal is accepted as a command
HasCaseLabel(text, literal) ==
  \E i \in 1..Len(text) :
    CaseLabelAt(text, i).ok /\ CaseLabelAt(text, i).cap = literal /\ CommandAccepted(literal)

\* the project of the end-to-end scenario: a name, and a bin entry whose
\* file holds a case label for the command build
EndToEndProject ==
  /\ fs.dir /\ fs.pkg.k = "json" /\ fs.pkg.json.t = "obj"
  /\ fs.pkg.json.name # ""
  /\ fs.pkg.json.bin # <<>>
  /\ \A i \in DOMAIN fs.pkg.json.bin : fs.pkg.json.bin[i].path.k = "str"
  /\ FileAt(fs.pkg.json.bin[1].path.s).k = "text"
  /\ HasCaseLabel(FileAt(fs.pkg.json.bin[1].path.s).text, <<"b","u","i","l","d">>)

\* line b follows line a somewhere in a README
Follows(content, a, b) == \E i, j \in DOMAIN content : i < j /\ content[i] = a /\ content[j] = b

\* C2 - End-to-end generation: a run without options on the end-to-end
\* project, README.md absent, writes a README.md that begins with "# N", has
\* "npm install -g N" in its Installation section and a Commands row for
\* the command.
C2_EndToEnd ==
  (Ended /\ Plain(LastRun.flags) /\ ~LastRun.before.exists /\ EndToEndProject)
  => /\ readme.exists
     /\ readme.content[1] = <<"# ", fs.pkg.json.name>>
     /\ Follows(readme.content, <<"## Installation">>, <<"npm install -g ", fs.pkg.json.name>>)
     /\ \E k \in DOMAIN readme.content :
          SubSeq(readme.content[k], 1, 1 + Len(<<"b","u","i","l","d">>)) = << "| ^" >> \o <<"b","u","i","l","d">>

\* C3 - Exit status: a run (other than a request for help) ends with a
\* non-zero status exactly when the directory is absent, package.json is
\* absent or unparseable, or README.md exists and neither --force nor
\* --stdout nor --json is given.
C3_ExitStatus ==
  (Ended /\ ~LastRun.flags.help)
  => (LastRun.exit # 0
        <=> \/ ~fs.dir
            \/ fs.pkg.k \in {"absent", "invalid"}
            \/ (LastRun.before.exists /\ Guarded(LastRun.flags)))

\* the data have just been merged
Merged == pc = "output"

Names(records) == {records[i].name : i \in DOMAIN records}

\* the description of the last record of that name
LastDesc(records, name) ==
  records[CHOOSE i \in DOMAIN records :
            records[i].name = name /\ \A j \in DOMAIN records : records[j].name = name => j <= i].desc

Has(records, name, desc) == \E i \in DOMAIN records : records[i] = [name |-> name, desc |-> desc]

DynamicWins(static, dynamic, merged) ==
  \A name \in Range(static) :
    IF name \in Names(dynamic) THEN Has(merged, name, LastDesc(dynamic, name))
    ELSE Has(merged, name, <<>>)

\* C4 - Dynamic precedence: a name of the static set that the dynamic
\* records hold too has, in the merged result, the description the dynamic
\* records give it; a name of the static set alone is in the merged result
\* with an empty description.
C4_DynamicPrecedence ==
  Merged => /\ DynamicWins(staticCommands, dynamicData.commands, analysis.commands)
            /\ DynamicWins(staticFlags, dynamicData.flags, analysis.flags)

C4_Witness ==
  /\ Merged
  /\ \E name \in Range(staticCommands) : name \in Names(dynamicData.commands)
  /\ \E name \in Range(staticCommands) : name \notin Names(dynamicData.commands)
  /\ \E i, j \in DOMAIN dynamicData.commands :
       /\ i < j /\ dynamicData.commands[i].name = dynamicData.commands[j].name
       /\ dynamicData.commands[i].name \in Range(staticCommands)

AscendingOrdinal(records) ==
  \A i \in 1..(Len(records) - 1) : OrdinalLess(records[i].name, records[i + 1].name)

AscendingLocale(records) ==
  \A i \in 1..(Len(records) - 1) : localeCompare(records[i].name, records[i + 1].name) < 0

NoNameTwice(records) ==
  \A i, j \in DOMAIN records : records[i].name = records[j].name => i = j

\* C5 as the specification states it - Sort totality: the merged command
\* and flag sequences are strictly ascending by name in code-unit order.
C5_SortOrdinal ==
  Merged => AscendingOrdinal(analysis.commands) /\ AscendingOrdinal(analysis.flags)

\* C5 - Sort totality: the merged command and flag sequences are strictly
\* ascending by name in the order of localeCompare (letters before their
\* case: "a" before "B"), and no name occurs twice in either.
C5_SortLocale ==
  Merged => /\ AscendingLocale(analysis.commands) /\ NoNameTwice(analysis.commands)
            /\ AscendingLocale(analysis.flags) /\ NoNameTwice(analysis.flags)

C5_Witness ==
  /\ Merged
  /\ \E i \in 1..(Len(analysis.commands) - 1) :
       OrdinalLess(analysis.commands[i + 1].name, analysis.commands[i].name)
  /\ Len(analysis.flags) >= 2
  /\ \E i, j \in DOMAIN dynamicData.commands :
       i < j /\ dynamicData.commands[i].name = dynamicData.commands[j].name

\* C6 - Merge idempotence: the merged records, merged again as the dynamic
\* input of an empty static set, come out as the same sequence.
C6_MergeIdempotent ==
  Merged => /\ Merge(<<>>, analysis.commands) = analysis.commands
            /\ Merge(<<>>, analysis.flags) = analysis.flags

C6_Witness ==
  /\ Merged
  /\ Len(analysis.commands) >= 3
  /\ Len(analysis.flags) >= 2
  /\ staticCommands # <<>> /\ dynamicData.commands # <<>>
  /\ \E i \in DOMAIN analysis.commands : analysis.commands[i].desc # <<>>

\* the files have just been scanned
Scanned == pc = "merge"

\* the text of the scanned entry point and its lines
ScannedCode == fs.files["index.js"].text
ScannedLines == {l \in Range(SourceLines) : Includes(Split(ScannedCode, "\n"), l.text)}

\* the generic tokens of the stoplist
GenericTokens ==
  { <<"h","e","l","p">>, <<"v","e","r","s","i","o","n">>, <<"d","e","f","a","u","l","t">>, <<"t","r","u","e">>, <<"f","a","l","s","e">>,
    <<"c","o","m","m","a","n","d">>, <<"c","m","d">>, <<"a","c","t","i","o","n">>, <<"e","r","r","o","r">>, <<"e","x","i","t">> }

\* C7 - Stoplist exclusion: the scanned commands are exactly the literals
\* of the command patterns that are not, in lower case, a generic token;
\* the labels help, version and deploy yield the command deploy alone.
C7_StoplistExclusion ==
  Scanned => /\ Range(staticCommands) =
                  {l.cmd : l \in {x \in ScannedLines : x.cmd # <<>> /\ ToLower(x.cmd) \notin GenericTokens}}
             /\ (ScannedCode = ThreeLabels => staticCommands = << <<"d","e","p","l","o","y">> >>)

C7_Witness == Scanned /\ ScannedCode = ThreeLabels /\ staticCommands = << <<"d","e","p","l","o","y">> >>

\* a dash or two, then a letter
DashLetter(flag) ==
  /\ Len(flag) >= 2 /\ flag[1] = "-"
  /\ \/ flag[2] \in Letter
     \/ (Len(flag) >= 3 /\ flag[2] = "-" /\ flag[3] \in Letter)

\* the flag a property name stands for
Dashed(prop) == IF Len(prop) = 1 THEN <<"-">> \o prop ELSE <<"-", "-">> \o prop

\* C8 - Flag normalization: a one-letter property p of argv, opts or flags
\* stands for -p and a longer one for --name; it is a scanned flag unless it
\* is in one of the two stoplists or is no dash-plus-letter; every scanned
\* flag is a dash or two followed by a letter.
C8_FlagNormalization ==
  Scanned =>
    /\ \A l \in {x \in ScannedLines : x.prop # <<>>} :
         Includes(staticFlags, Dashed(l.prop))
           <=> /\ Dashed(l.prop) \notin Range(FlagStoplist) \cup Range(FlagPlaceholders)
               /\ DashLetter(Dashed(l.prop))
    /\ \A i \in DOMAIN staticFlags : DashLetter(staticFlags[i])
    /\ Range(staticFlags) \subseteq
         {Dashed(l.prop) : l \in {x \in ScannedLines : x.prop # <<>>}}
           \cup {l.lit : l \in {x \in ScannedLines : x.lit # <<>>}}

C8_Witness ==
  /\ Scanned
  /\ staticFlags = << <<"-","f">>, <<"-","-","f","o","r","c","e">> >>

\* the repository has just been looked for in the manifest
RepoDetected == pc = "gitRemote"

\* the url of the manifest's repository field, <<>> when it gives none
ManifestUrl ==
  IF fs.pkg.json.repository.k = "str" \/ (fs.pkg.json.repository.k = "obj" /\ fs.pkg.json.repository.url = "str")
  THEN fs.pkg.json.repository.s ELSE <<>>

\* what follows "github.com/" or "github.com:" in a url, <<>> without them
AfterHost(url) ==
  LET at == {i \in 1..Len(url) : At(url, i, <<"g","i","t","h","u","b",".","c","o","m","/">>) \/ At(url, i, <<"g","i","t","h","u","b",".","c","o","m",":">>)}
  IN IF at = {} THEN <<>>
     ELSE SubSeq(url, 11 + (CHOOSE i \in at : \A j \in at : i <= j), Len(url))

\* a name without its trailing ".git"
WithoutGit(name) ==
  IF Len(name) > 4 /\ SubSeq(name, Len(name) - 3, Len(name)) = <<".","g","i","t">>
  THEN SubSeq(name, 1, Len(name) - 4) ELSE name

\* <user>/<repo> of a url, the repository name whole but for its ".git"
WholeRepo(url) ==
  LET parts == Split(AfterHost(url), "/")
  IN [found |-> TRUE, user |-> parts[1], repo |-> WithoutGit(parts[2])]

HasUserAndRepo(url) ==
  LET parts == Split(AfterHost(url), "/")
  IN Len(parts) >= 2 /\ parts[1] # <<>> /\ WithoutGit(parts[2]) # <<>>

\* C9 - Repository-URL extraction: a manifest repository url that holds
\* github.com, "/" or ":", and <user>/<repo> gives the RepositoryRef of that
\* user and of the whole repository name without its trailing ".git"; the
\* git config file changes nothing of a match the manifest gave.
C9_RepositoryUrl ==
  /\ (RepoDetected /\ HasUserAndRepo(ManifestUrl)) => analysis.github = WholeRepo(ManifestUrl)
  /\ (pc = "probe" /\ HasUserAndRepo(ManifestUrl)) => analysis.github = WholeRepo(ManifestUrl)

\* C10 - The Repository Identifier never fails: whatever the repository
\* field and .git/config are, the run gets past it and through the probe,
\* the scan and the merge to its output.
C10_RepositoryNeverFails ==
  Ended => printed \in {"json", "readme", "summary"}

\* the probed child was ended by the timeout, or could not be spawned
ProbeFailed == probe.outcome \in {"timeout", "spawnfail"}

\* the probe has just been made
Probed == pc = "scan"

\* C11 - Dynamic Probe timeout: when the probed child is ended by the
\* 2000 ms timeout or cannot be spawned, what it had written is discarded:
\* the dynamic data are empty, the merged result is that of the static
\* findings alone, and the run goes on to its output.
C11_ProbeTimeout ==
  /\ (Probed /\ ProbeFailed) => dynamicData = NoData
  /\ (Merged /\ ProbeFailed) =>
       /\ analysis.commands = Merge(staticCommands, <<>>)
       /\ analysis.flags = Merge(staticFlags, <<>>)
  /\ (Ended /\ ProbeFailed /\ ~LastRun.flags.help) => printed \in {"json", "readme", "summary"}

\* the lines of the probed help output
HelpTextLines == Split(probe.stdout, "\n")

HeaderNames == { <<"c","o","m","m","a","n","d","s">>, <<"u","s","a","g","e">>, <<"o","p","t","i","o","n","s">>, <<"f","l","a","g","s">> }

\* the section a header line names, <<>> for a line that is no header
HeaderOf(line) ==
  LET names == {h \in HeaderNames : AtNoCase(Trim(line), 1, h \o <<":">>)}
  IN IF names = {} THEN <<>> ELSE CHOOSE h \in names : TRUE

\* the section of the most recent header before line k, <<>> when there is none
CursorBefore(lines, k) ==
  LET hs == {j \in 1..(k - 1) : HeaderOf(lines[j]) # <<>>}
  IN IF hs = {} THEN <<>> ELSE HeaderOf(lines[CHOOSE j \in hs : \A i \in hs : i <= j])

\* the numbers, in order, of the lines that are no header and stand under a
\* header of one of the sections
LinesUnder(lines, sections) ==
  SelectSeq([k \in 1..Len(lines) |-> k],
            LAMBDA k : HeaderOf(lines[k]) = <<>> /\ CursorBefore(lines, k) \in sections)

\* the records of the lines under the Commands header that have the shape
\* of a command, in the order of the lines
CommandsUnder(lines) ==
  LET ks == SelectSeq(LinesUnder(lines, { <<"c","o","m","m","a","n","d","s">> }), LAMBDA k : CommandLine(lines[k]).ok)
  IN [i \in 1..Len(ks) |-> [name |-> CommandLine(lines[ks[i]]).name, desc |-> CommandLine(lines[ks[i]]).desc]]

\* the records of the lines under an Options or Flags header that have the
\* shape of a flag, in the order of the lines
FlagsUnder(lines) ==
  LET ks == SelectSeq(LinesUnder(lines, { <<"o","p","t","i","o","n","s">>, <<"f","l","a","g","s">> }), LAMBDA k : FlagLine(lines[k]).ok)
  IN [i \in 1..Len(ks) |-> [name |-> FlagLine(lines[ks[i]]).name, desc |-> FlagLine(lines[ks[i]]).desc]]

\* C12 - Help-text section cursor: the command records parseHelpOutput gives
\* are those of the lines whose most recent preceding header is Commands,
\* the flag records those of the lines whose most recent preceding header
\* is Options or Flags, in the order of the lines; a line before the first
\* header or under Usage gives no record, and neither does a header line.
C12_SectionCursor ==
  Probed => /\ dynamicData.commands = CommandsUnder(HelpTextLines)
            /\ dynamicData.flags = FlagsUnder(HelpTextLines)

C12_Witness ==
  /\ Probed
  /\ dynamicData.commands # <<>>
  /\ \E k \in DOMAIN HelpTextLines :
       /\ CommandLine(HelpTextLines[k]).ok
       /\ CursorBefore(HelpTextLines, k) # <<"c","o","m","m","a","n","d","s">>

====
